---------------------------- MODULE Spec2Model ----------------------------
(***************************************************************************)
(* Model of the vector kernels of include/pstl/_internal/simd_impl.h in    *)
(* the strategy compiled when __PSTL_EARLYEXIT_PRESENT is 0 (every         *)
(* compiler but icc >= 18, pstl_config.h:89).                              *)
(*                                                                         *)
(* A range [first, first + n) is a sequence; the iterator first + i is the *)
(* index i (0-based) and last is n.  Each kernel is an operator that runs  *)
(* the kernel's loops as the source writes them and returns what the       *)
(* kernel returns together with what it did to caller-owned storage (the   *)
(* output buffer, the mask, the indices it read).  The state machine is a  *)
(* caller: Init draws the arguments, each action calls one kernel on them  *)
(* and records the outcome under the kernel's name in res.                 *)
(***************************************************************************)
EXTENDS Integers, Sequences, FiniteSets, TLC

VARIABLES
    range,    \* the elements of [first, last)
    needle,   \* the elements of [s_first, s_last) (simd_search)
    pred,     \* the callable passed as pred / p
    prev,     \* what a read of first[-1] yields
    res       \* kernel name -> outcome of the call made on the arguments above

vars == <<range, needle, pred, prev, res>>

-----------------------------------------------------------------------------
(* Bounds of the checked instances. *)

\* longest range given to the search kernels simd_or, simd_first, simd_count
MaxLen == 17
\* most elements of such a range on which the predicate differs from the rest
MaxHits == 3
\* longest range given to simd_copy_if, simd_calc_mask_1, simd_copy_by_mask
MaxCopyLen == 5
\* longest drawn range given to simd_unique_copy and simd_calc_mask_2
MaxUniqueLen == 5
\* longest range given to simd_adjacent_find
MaxAdjLen == 17
\* longest haystack and longest needle given to simd_search
MaxHaystack == 11
MaxNeedle == 9
\* most elements of a haystack, and of a needle, that are 1 and not 0
MaxOnes == 1
\* the haystack and the needle of the search example
SearchHaystack == <<1, 2, 3, 4, 5>>
SearchNeedle == <<3, 4>>
\* the elements of the ranges given to the compaction kernels
CopyElements == {0, 1, 2, 3}
UniqueElements == {1, 2, 3}
\* the range of the dedup example
DedupExample == <<1, 2, 2, 3, 3, 3, 4>>

-----------------------------------------------------------------------------
(* Iterators, elements, callables. *)

\* *(first + i): the element at index i of r; OutOfRange when the index is
\* not one of [0, n)
OutOfRange == "out_of_range"
Deref(r, i) == IF i >= 0 /\ i < Len(r) THEN r[i + 1] ELSE OutOfRange

\* pred(x) for the unary callables the checked instances pass
Call1(p, x) ==
    LET v == CASE p.name = "nonzero" -> x # 0
               [] p.name = "is_zero" -> x = 0
               [] p.name = "is_odd" -> x % 2 = 1
    IN IF p.neg THEN ~v ELSE v

\* pred(x, y) for the binary callables the checked instances pass
Call2(p, x, y) ==
    LET v == CASE p.name = "equal_to" -> x = y
               [] p.name = "less" -> x < y
               [] p.name = "same_parity" -> x % 2 = y % 2
    IN IF p.neg THEN ~v ELSE v

Pred(nm) == [name |-> nm, neg |-> FALSE]

\* not_pred<BinaryPredicate>(p): the callable that negates p
not_pred(p) == [p EXCEPT !.neg = ~@]

\* int t = pred(...): a bool converted to int
ToInt(b) == IF b THEN 1 ELSE 0

Min(a, b) == IF a <= b THEN a ELSE b

-----------------------------------------------------------------------------
(* simd_or, lines 59-90, #else branch. *)

\* the reduction over one block, lines 71-75: flag ends 0 iff pred holds
\* somewhere in [first, first + block_size)
or_block_skips_last(r, p, first, block_size) ==
    IF \E i \in 0 .. block_size - 2 : Call1(p, Deref(r, first + i)) THEN 0 ELSE 1

or_block(r, p, first, block_size) ==
    IF \E i \in 0 .. block_size - 1 : Call1(p, Deref(r, first + i)) THEN 0 ELSE 1

\* the body of `while ( last != first )`; blocks collects <<first, block_size>>
\* of every block scanned.  More than n + 1 blocks cannot be scanned by a loop
\* that advances, so the scan is cut there and reported as not terminated.
RECURSIVE simd_or_loop(_, _, _, _, _, _)
simd_or_loop(r, p, first, last, block_size, blocks) ==
    IF Len(blocks) > last
    THEN [ret |-> FALSE, terminated |-> FALSE, blocks |-> blocks]
    ELSE IF last # first
    THEN LET scanned == Append(blocks, <<first, block_size>>)
             flag == or_block(r, p, first, block_size)
             first2 == first + block_size
         IN IF flag = 0
            THEN [ret |-> TRUE, terminated |-> TRUE, blocks |-> scanned]
            ELSE IF last - first2 >= block_size * 2
            THEN simd_or_loop(r, p, first2, last, block_size * 2, scanned)
            ELSE simd_or_loop(r, p, first2, last, last - first2, scanned)
    ELSE [ret |-> FALSE, terminated |-> TRUE, blocks |-> blocks]

simd_or(r, n, p) == simd_or_loop(r, p, 0, n, Min(4, n), <<>>)

-----------------------------------------------------------------------------
(* simd_first, one stream (lines 92-136) and two streams (lines 138-181),  *)
(* #else branches.                                                         *)

\* const int block_size = 8
block_size == 8

\* alignas(64) int lane[block_size] = {0}
lane_init == [i \in 0 .. block_size - 1 |-> 0]

\* for ( i = 0; i < block_size; ++i ) if ( lane[i] ) break;  -- the value of i
\* after the loop
first_lane_takes_last(lane) ==
    IF \E i \in 0 .. block_size - 1 : lane[i] # 0
    THEN CHOOSE i \in 0 .. block_size - 1 :
             lane[i] # 0 /\ \A j \in i + 1 .. block_size - 1 : lane[j] = 0
    ELSE block_size

first_lane(lane) ==
    IF \E i \in 0 .. block_size - 1 : lane[i] # 0
    THEN CHOOSE i \in 0 .. block_size - 1 :
             lane[i] # 0 /\ \A j \in 0 .. i - 1 : lane[j] = 0
    ELSE block_size

\* found after the reduction |:found over the lanes
or_reduce(lane, upto) == ToInt(\E i \in 0 .. upto - 1 : lane[i] # 0)

\* the scalar remainder, lines 128-134
RECURSIVE simd_first_rest(_, _, _, _)
simd_first_rest(r, p, first, last) ==
    IF last # first
    THEN IF Call1(p, Deref(r, first)) THEN first
         ELSE simd_first_rest(r, p, first + 1, last)
    ELSE last

\* the block loop, lines 107-126
RECURSIVE simd_first_loop(_, _, _, _, _)
simd_first_loop(r, p, first, last, lane) ==
    IF last - first >= block_size
    THEN LET lane2 == [i \in 0 .. block_size - 1 |->
                          ToInt(Call1(p, Deref(r, first + i)))]
             found == or_reduce(lane2, block_size)
         IN IF found # 0
            THEN first + first_lane(lane2)
            ELSE simd_first_loop(r, p, first + block_size, last, lane2)
    ELSE simd_first_rest(r, p, first, last)

simd_first(r, n, p) == simd_first_loop(r, p, 0, n, lane_init)

\* two streams: the scalar remainder, lines 175-179
RECURSIVE simd_first2_rest(_, _, _, _, _, _)
simd_first2_rest(r1, first1, last1, r2, first2, p) ==
    IF last1 # first1
    THEN IF Call2(p, Deref(r1, first1), Deref(r2, first2)) THEN first1
         ELSE simd_first2_rest(r1, first1 + 1, last1, r2, first2 + 1, p)
    ELSE last1

\* two streams: the block loop, lines 152-172
RECURSIVE simd_first2_loop(_, _, _, _, _, _, _)
simd_first2_loop(r1, first1, last1, r2, first2, p, lane) ==
    IF last1 - first1 >= block_size
    THEN LET lane2 == [i \in 0 .. block_size - 1 |->
                          ToInt(Call2(p, Deref(r1, first1 + i), Deref(r2, first2 + i)))]
             found == or_reduce(lane2, block_size)
         IN IF found # 0
            THEN first1 + first_lane(lane2)
            ELSE simd_first2_loop(r1, first1 + block_size, last1,
                                  r2, first2 + block_size, p, lane2)
    ELSE simd_first2_rest(r1, first1, last1, r2, first2, p)

\* simd_first(first1, n, first2, pred): r1 from index first1, r2 from first2
simd_first2(r1, first1, n, r2, first2, p) ==
    simd_first2_loop(r1, first1, first1 + n, r2, first2, p, lane_init)

-----------------------------------------------------------------------------
(* simd_count, lines 183-192. *)

RECURSIVE simd_count_loop(_, _, _, _, _)
simd_count_loop(r, n, p, i, count) ==
    IF i < n
    THEN simd_count_loop(r, n, p, i + 1,
                         IF Call1(p, Deref(r, i)) THEN count + 1 ELSE count)
    ELSE count

simd_count(r, n, p) == simd_count_loop(r, n, p, 0, 0)

-----------------------------------------------------------------------------
(* simd_adjacent_find, lines 299-351, #else branch. *)

\* the test of line 330 on the pair that straddles the end of the block
adj_boundary_unchecked(r, p, first, last) == FALSE

adj_boundary(r, p, first, last) ==
    /\ first + block_size < last
    /\ Call2(p, Deref(r, first + block_size - 1), Deref(r, first + block_size))

\* the indices one block reads: those of its 8 elements, and of the first
\* element of the next block when line 330 gets to call pred
adj_block_reads(first, last) ==
    (first .. first + block_size - 1)
        \cup (IF first + block_size < last THEN {first + block_size} ELSE {})

\* what lines 333-341 return once found is set
adj_found_resolves_lane(first, lane, or_semantic) == first + first_lane(lane)

adj_found(first, lane, or_semantic) ==
    IF or_semantic THEN first ELSE first + first_lane(lane)

\* the scalar loop over the rest, lines 345-349
RECURSIVE simd_adjacent_find_rest(_, _, _, _, _)
simd_adjacent_find_rest(r, p, first, last, reads) ==
    IF last - first > 1
    THEN IF Call2(p, Deref(r, first), Deref(r, first + 1))
         THEN [ret |-> first, reads |-> reads \cup {first, first + 1}]
         ELSE simd_adjacent_find_rest(r, p, first + 1, last,
                                      reads \cup {first, first + 1})
    ELSE [ret |-> last, reads |-> reads]

\* the block loop, lines 318-343
RECURSIVE simd_adjacent_find_loop(_, _, _, _, _, _, _)
simd_adjacent_find_loop(r, p, first, last, or_semantic, lane, reads) ==
    IF last - first >= block_size
    THEN LET lane2 == [i \in 0 .. block_size - 1 |->
                          IF i < block_size - 1
                          THEN ToInt(Call2(p, Deref(r, first + i), Deref(r, first + i + 1)))
                          ELSE lane[i]]
             found == or_reduce(lane2, block_size - 1)
             boundary == adj_boundary(r, p, first, last)
             lane3 == IF boundary THEN [lane2 EXCEPT ![block_size - 1] = 1] ELSE lane2
             found3 == IF boundary THEN 1 ELSE found
             reads2 == reads \cup adj_block_reads(first, last)
         IN IF found3 # 0
            THEN [ret |-> adj_found(first, lane3, or_semantic), reads |-> reads2]
            ELSE simd_adjacent_find_loop(r, p, first + block_size, last,
                                         or_semantic, lane3, reads2)
    ELSE simd_adjacent_find_rest(r, p, first, last, reads)

\* first is index 0 of r and last is n
simd_adjacent_find(r, n, p, or_semantic) ==
    IF n - 0 < 2
    THEN [ret |-> n, reads |-> {}]
    ELSE simd_adjacent_find_loop(r, p, 0, n, or_semantic, lane_init, {})

-----------------------------------------------------------------------------
(* simd_search, lines 353-372. *)

\* the loop of lines 364-370: i counts down from n1 - n2 while first goes up
RECURSIVE simd_search_loop(_, _, _, _, _, _, _, _)
simd_search_loop(r, s, n2, p, b_first, i, first, result) ==
    IF i >= 0
    THEN IF simd_first2(s, 0, n2 - 0, r, first, not_pred(p)) = n2
         THEN IF b_first
              THEN first
              ELSE simd_search_loop(r, s, n2, p, b_first, i - 1, first + 1, first)
         ELSE simd_search_loop(r, s, n2, p, b_first, i - 1, first + 1, result)
    ELSE result

\* a loop that stops one window early
simd_search_misses_last_window(r, n1, s, n2, p, b_first) ==
    IF n2 < 1 THEN n1
    ELSE IF n1 < n2 THEN n1
    ELSE simd_search_loop(r, s, n2, p, b_first, n1 - n2 - 1, 0, n1)

\* a search that breaks at the first match whatever b_first is
simd_search_always_first(r, n1, s, n2, p, b_first) ==
    IF n2 < 1 THEN n1
    ELSE IF n1 < n2 THEN n1
    ELSE simd_search_loop(r, s, n2, p, TRUE, n1 - n2, 0, n1)

\* first is index 0 of r and last is n1; s_first is index 0 of s, s_last is n2
simd_search(r, n1, s, n2, p, b_first) ==
    IF n2 < 1 THEN n1
    ELSE IF n1 < n2 THEN n1
    ELSE simd_search_loop(r, s, n2, p, b_first, n1 - n2, 0, n1)

-----------------------------------------------------------------------------
(* Caller-owned storage of the compaction kernels. *)

\* what an output position, or a mask entry, no kernel has stored to holds
\* (the elements drawn are >= 0 and a stored bool is 0 or 1)
Unwritten == -1

\* storage of n entries, none stored to yet (indices 0 .. n - 1)
Fresh(n) == [j \in 0 .. n - 1 |-> Unwritten]

\* result[cnt] = v
Store(out, cnt, v) == [out EXCEPT ![cnt] = v]

-----------------------------------------------------------------------------
(* simd_unique_copy, lines 194-211. *)

\* the loop of lines 203-209; cnts collects cnt after every iteration
RECURSIVE simd_unique_copy_loop(_, _, _, _, _, _, _)
simd_unique_copy_loop(r, n, p, i, cnt, out, cnts) ==
    IF i < n
    THEN IF ~Call2(p, Deref(r, i), Deref(r, i - 1))
         THEN simd_unique_copy_loop(r, n, p, i + 1, cnt + 1,
                                    Store(out, cnt, Deref(r, i)), Append(cnts, cnt + 1))
         ELSE simd_unique_copy_loop(r, n, p, i + 1, cnt, out, Append(cnts, cnt))
    ELSE [ret |-> cnt, out |-> out, cnts |-> cnts]

\* a loop that starts at i = 2
simd_unique_copy_from_2(r, n, result, p) ==
    IF n = 0
    THEN [ret |-> 0, out |-> result, cnts |-> <<>>]
    ELSE simd_unique_copy_loop(r, n, p, 2, 1, Store(result, 0, Deref(r, 0)), <<1>>)

simd_unique_copy(r, n, result, p) ==
    IF n = 0
    THEN [ret |-> 0, out |-> result, cnts |-> <<>>]
    ELSE simd_unique_copy_loop(r, n, p, 1, 1, Store(result, 0, Deref(r, 0)), <<1>>)

-----------------------------------------------------------------------------
(* simd_copy_if, lines 221-234. *)

RECURSIVE simd_copy_if_loop(_, _, _, _, _, _, _)
simd_copy_if_loop(r, n, p, i, cnt, out, cnts) ==
    IF i < n
    THEN IF Call1(p, Deref(r, i))
         THEN simd_copy_if_loop(r, n, p, i + 1, cnt + 1,
                                Store(out, cnt, Deref(r, i)), Append(cnts, cnt + 1))
         ELSE simd_copy_if_loop(r, n, p, i + 1, cnt, out, Append(cnts, cnt))
    ELSE [ret |-> cnt, out |-> out, cnts |-> cnts]

\* a loop that starts at i = 1
simd_copy_if_from_1(r, n, result, p) == simd_copy_if_loop(r, n, p, 1, 0, result, <<>>)

simd_copy_if(r, n, result, p) == simd_copy_if_loop(r, n, p, 0, 0, result, <<>>)

-----------------------------------------------------------------------------
(* simd_calc_mask_2, lines 236-246, and simd_calc_mask_1, lines 248-258. *)

\* first[i] for i >= -1: the loop of simd_calc_mask_2 reads first[i - 1] from
\* i = 0 on, so its first read is of the element before the range, which is
\* whatever the caller's storage holds there (before)
DerefFrom(r, i, before) == IF i = -1 THEN before ELSE Deref(r, i)

\* reads collects the indices of first the loop read
RECURSIVE simd_calc_mask_2_loop(_, _, _, _, _, _, _, _)
simd_calc_mask_2_loop(r, n, p, before, i, count, mask, reads) ==
    IF i < n
    THEN LET m == ToInt(~Call2(p, Deref(r, i), DerefFrom(r, i - 1, before)))
         IN simd_calc_mask_2_loop(r, n, p, before, i + 1, count + m,
                                  Store(mask, i, m), reads \cup {i, i - 1})
    ELSE [ret |-> count, mask |-> mask, reads |-> reads]

simd_calc_mask_2_from_1(r, n, mask, p, before) ==
    simd_calc_mask_2_loop(r, n, p, before, 1, 0, mask, {})

simd_calc_mask_2(r, n, mask, p, before) ==
    simd_calc_mask_2_loop(r, n, p, before, 0, 0, mask, {})

RECURSIVE simd_calc_mask_1_loop(_, _, _, _, _, _)
simd_calc_mask_1_loop(r, n, p, i, count, mask) ==
    IF i < n
    THEN LET m == ToInt(Call1(p, Deref(r, i)))
         IN simd_calc_mask_1_loop(r, n, p, i + 1, count + m, Store(mask, i, m))
    ELSE [ret |-> count, mask |-> mask]

simd_calc_mask_1(r, n, mask, p) == simd_calc_mask_1_loop(r, n, p, 0, 0, mask)

-----------------------------------------------------------------------------
(* simd_copy_by_mask, lines 260-271. *)

RECURSIVE simd_copy_by_mask_loop(_, _, _, _, _, _)
simd_copy_by_mask_loop(r, n, mask, i, cnt, out) ==
    IF i < n
    THEN IF mask[i] # 0
         THEN simd_copy_by_mask_loop(r, n, mask, i + 1, cnt + 1,
                                     Store(out, cnt, Deref(r, i)))
         ELSE simd_copy_by_mask_loop(r, n, mask, i + 1, cnt, out)
    ELSE [out |-> out]

\* a store to result[i] in place of result[cnt]
simd_copy_by_mask_in_place(r, n, result, mask) ==
    [out |-> [j \in DOMAIN result |->
                 IF j < n /\ mask[j] # 0 THEN Deref(r, j) ELSE result[j]]]

simd_copy_by_mask(r, n, result, mask) ==
    simd_copy_by_mask_loop(r, n, mask, 0, 0, result)

-----------------------------------------------------------------------------
(* The caller. *)

NoCalls == [k \in {} |-> FALSE]

Record(k, v) == res' = (k :> v) @@ res

Called(k) == k \in DOMAIN res

n_range == Len(range)

\* the sets of at most k elements of S
RECURSIVE SmallSubsets(_, _)
SmallSubsets(S, k) ==
    IF k = 0 THEN {{}}
    ELSE LET P == SmallSubsets(S, k - 1)
         IN P \cup {q \cup {x} : q \in P, x \in S}

\* the range of n elements that is 1 at the indices of hits and 0 elsewhere
Marked(n, hits) == [i \in 1 .. n |-> IF (i - 1) \in hits THEN 1 ELSE 0]

InitFind ==
    /\ \E n \in 0 .. MaxLen : \E hits \in SmallSubsets(0 .. n - 1, MaxHits) :
           range = Marked(n, hits)
    /\ pred \in {Pred("nonzero"), Pred("is_zero")}
    /\ needle = <<>>
    /\ prev = 0
    /\ res = NoCalls

CallSimdOr ==
    /\ Record("simd_or", simd_or(range, Len(range), pred))
    /\ UNCHANGED <<range, needle, pred, prev>>

CallSimdCount ==
    /\ Record("simd_count", simd_count(range, Len(range), pred))
    /\ UNCHANGED <<range, needle, pred, prev>>

CallSimdFirst ==
    /\ Record("simd_first", simd_first(range, Len(range), pred))
    /\ UNCHANGED <<range, needle, pred, prev>>

NextFind == CallSimdOr \/ CallSimdFirst \/ CallSimdCount

SpecFind == InitFind /\ [][NextFind]_vars

-----------------------------------------------------------------------------
(* The caller of the unary compaction kernels. *)

\* the sequences over S of length at most k
SeqsUpTo(S, k) == UNION {[1 .. n -> S] : n \in 0 .. k}

InitCopy ==
    /\ range \in SeqsUpTo(CopyElements, MaxCopyLen)
    /\ pred \in {Pred("is_odd"), Pred("nonzero")}
    /\ needle = <<>>
    /\ prev = 0
    /\ res = NoCalls

CallSimdCopyIf ==
    /\ Record("simd_copy_if", simd_copy_if(range, Len(range), Fresh(Len(range)), pred))
    /\ UNCHANGED <<range, needle, pred, prev>>

CallSimdCalcMask1 ==
    /\ Record("simd_calc_mask_1",
              simd_calc_mask_1(range, Len(range), Fresh(Len(range)), pred))
    /\ UNCHANGED <<range, needle, pred, prev>>

\* the mask is the one simd_calc_mask_1 filled
CallSimdCopyByMask ==
    /\ Called("simd_calc_mask_1")
    /\ Record("simd_copy_by_mask",
              simd_copy_by_mask(range, Len(range), Fresh(Len(range)),
                                res["simd_calc_mask_1"].mask))
    /\ UNCHANGED <<range, needle, pred, prev>>

NextCopy == CallSimdCopyIf \/ CallSimdCalcMask1 \/ CallSimdCopyByMask \/ CallSimdCount

SpecCopy == InitCopy /\ [][NextCopy]_vars

-----------------------------------------------------------------------------
(* The caller of the binary compaction kernels. *)

InitUnique ==
    /\ range \in SeqsUpTo(UniqueElements, MaxUniqueLen) \cup {DedupExample}
    /\ pred \in {Pred("equal_to"), Pred("same_parity"), Pred("less")}
    /\ needle = <<>>
    /\ prev \in UniqueElements
    /\ res = NoCalls

\* the first n entries of storage out, as a sequence
Written(out, n) == [j \in 1 .. n |-> out[j - 1]]

CallSimdUniqueCopy ==
    /\ Record("simd_unique_copy",
              simd_unique_copy(range, Len(range), Fresh(Len(range)), pred))
    /\ UNCHANGED <<range, needle, pred, prev>>

\* simd_unique_copy on the output of the call before
CallSimdUniqueCopyAgain ==
    /\ Called("simd_unique_copy")
    /\ LET u == res["simd_unique_copy"]
       IN Record("simd_unique_copy_again",
                 simd_unique_copy(Written(u.out, u.ret), u.ret, Fresh(u.ret), pred))
    /\ UNCHANGED <<range, needle, pred, prev>>

CallSimdCalcMask2 ==
    /\ Record("simd_calc_mask_2",
              simd_calc_mask_2(range, Len(range), Fresh(Len(range)), pred, prev))
    /\ UNCHANGED <<range, needle, pred, prev>>

NextUnique == CallSimdUniqueCopy \/ CallSimdUniqueCopyAgain \/ CallSimdCalcMask2

SpecUnique == InitUnique /\ [][NextUnique]_vars

-----------------------------------------------------------------------------
(* The caller of simd_adjacent_find. *)

\* the range of n elements over {0, 1} that starts with 0 and in which
\* element[i] = element[i+1] exactly for the i in pairs
RECURSIVE WithEqualPairs(_, _)
WithEqualPairs(n, pairs) ==
    IF n = 0 THEN <<>>
    ELSE IF n = 1 THEN <<0>>
    ELSE LET r == WithEqualPairs(n - 1, pairs)
         IN Append(r, IF (n - 2) \in pairs THEN r[n - 1] ELSE 1 - r[n - 1])

InitAdj ==
    /\ \E n \in 0 .. MaxAdjLen : \E pairs \in SmallSubsets(0 .. n - 2, MaxHits) :
           range = WithEqualPairs(n, pairs)
    /\ pred \in {Pred("equal_to"), not_pred(Pred("equal_to")), Pred("less")}
    /\ needle = <<>>
    /\ prev = 0
    /\ res = NoCalls

CallSimdAdjacentFind ==
    /\ \E or_semantic \in BOOLEAN :
           Record(IF or_semantic THEN "simd_adjacent_find_or" ELSE "simd_adjacent_find",
                  simd_adjacent_find(range, Len(range), pred, or_semantic))
    /\ UNCHANGED <<range, needle, pred, prev>>

NextAdj == CallSimdAdjacentFind

SpecAdj == InitAdj /\ [][NextAdj]_vars

-----------------------------------------------------------------------------
(* The caller of simd_search. *)

InitSearch ==
    /\ \/ /\ \E n \in 0 .. MaxHaystack : \E ones \in SmallSubsets(0 .. n - 1, MaxOnes) :
                 range = Marked(n, ones)
          /\ \E n \in 0 .. MaxNeedle : \E ones \in SmallSubsets(0 .. n - 1, MaxOnes) :
                 needle = Marked(n, ones)
       \/ /\ range = SearchHaystack
          /\ needle = SearchNeedle
    /\ pred = Pred("equal_to")
    /\ prev = 0
    /\ res = NoCalls

CallSimdSearch ==
    /\ \E b_first \in BOOLEAN :
           Record(IF b_first THEN "simd_search_first" ELSE "simd_search",
                  simd_search(range, Len(range), needle, Len(needle), pred, b_first))
    /\ UNCHANGED <<range, needle, pred, prev>>

NextSearch == CallSimdSearch

SpecSearch == InitSearch /\ [][NextSearch]_vars

-----------------------------------------------------------------------------
(* Properties of the search kernels, checked under SpecFind. *)

\* the blocks simd_or scanned tile a prefix of the range: the first starts at
\* 0 with min(4, n) elements, each next one starts where the previous ended
\* and is twice as long if that fits twice into what is left, else it is all
\* that is left
BlockDoubling(blocks, n) ==
    /\ blocks # <<>> => blocks[1] = <<0, Min(4, n)>>
    /\ \A k \in 1 .. Len(blocks) :
           /\ blocks[k][2] >= 1
           /\ blocks[k][1] + blocks[k][2] <= n
    /\ \A k \in 1 .. Len(blocks) - 1 :
           LET start == blocks[k][1] + blocks[k][2]
               left == n - start
           IN blocks[k + 1] = <<start, IF left >= 2 * blocks[k][2]
                                        THEN 2 * blocks[k][2] ELSE left>>

\* C1: simd_or (block-doubling strategy) terminates and returns true iff
\* simd_count over the same range and predicate is greater than 0; its blocks
\* follow the doubling rule; for n = 0 it returns false and the count is 0.
C1_OrIffCountPositive ==
    (Called("simd_or") /\ Called("simd_count")) =>
        /\ res["simd_or"].terminated
        /\ res["simd_or"].ret <=> res["simd_count"] > 0
        /\ BlockDoubling(res["simd_or"].blocks, n_range)
        /\ n_range = 0 => (~res["simd_or"].ret /\ res["simd_count"] = 0)

\* simd_or found its match only in the third block, after a block of 4 and a
\* doubled block of 8, in a range that simd_count counts 1 or more in
C1_Witness ==
    /\ Called("simd_or") /\ Called("simd_count")
    /\ res["simd_or"].ret
    /\ Len(res["simd_or"].blocks) = 3
    /\ res["simd_or"].blocks[2][2] = 8
    /\ res["simd_count"] > 0

\* C2: one-stream simd_first returns last iff simd_or returns false;
\* otherwise it returns an index inside the range at which pred holds and
\* before which pred holds nowhere.
C2_FirstMatch ==
    (Called("simd_first") /\ Called("simd_or")) =>
        LET f == res["simd_first"]
        IN /\ f = n_range <=> ~res["simd_or"].ret
           /\ f # n_range =>
                 /\ f \in 0 .. n_range - 1
                 /\ Call1(pred, range[f + 1])
                 /\ \A j \in 0 .. f - 1 : ~Call1(pred, range[j + 1])

\* simd_first returned a match of the scalar remainder that follows two full
\* blocks of 8, with simd_or true on the same input
C2_Witness ==
    /\ Called("simd_first") /\ Called("simd_or")
    /\ res["simd_or"].ret
    /\ res["simd_first"] >= 2 * block_size
    /\ res["simd_first"] < n_range
    /\ n_range - res["simd_first"] < block_size
    /\ n_range % block_size # 0

-----------------------------------------------------------------------------
(* Properties of the unary compaction kernels, checked under SpecCopy. *)

NonDecreasing(cnts) == \A k \in 1 .. Len(cnts) - 1 : cnts[k] <= cnts[k + 1]

\* the elements of r on which p holds, in the order of r
Satisfying(r, p) == SelectSeq(r, LAMBDA x : Call1(p, x))

\* C3: simd_copy_if writes exactly the elements satisfying pred, in input
\* order, to output positions 0 .. k-1 and returns result + k with k the value
\* of simd_count (k <= n, k = 0 when n = 0); the write counter never decreases
\* and no output position at or beyond k is written.
C3_CopyIf ==
    (Called("simd_copy_if") /\ Called("simd_count")) =>
        LET c == res["simd_copy_if"]
            k == res["simd_count"]
        IN /\ c.ret = k
           /\ k <= n_range
           /\ n_range = 0 => k = 0
           /\ Written(c.out, k) = Satisfying(range, pred)
           /\ \A j \in k .. n_range - 1 : c.out[j] = Unwritten
           /\ Len(c.cnts) = n_range
           /\ NonDecreasing(<<0>> \o c.cnts)

\* simd_copy_if copied 2 or more elements and dropped one that lies between
\* two it copied
C3_Witness ==
    /\ Called("simd_copy_if") /\ Called("simd_count")
    /\ res["simd_copy_if"].ret >= 2
    /\ \E i \in 2 .. n_range - 1 :
           /\ ~Call1(pred, range[i])
           /\ Call1(pred, range[i - 1])
           /\ Call1(pred, range[i + 1])
           /\ range[i - 1] # range[i + 1]

\* C4: with mask the array simd_calc_mask_1 produced (mask[i] = pred(element[i])
\* for all i in [0, n)), simd_copy_by_mask writes the same output, element for
\* element and in length, as simd_copy_if, and that length is the count
\* simd_calc_mask_1 returned.
C4_CopyByMaskAgrees ==
    (Called("simd_copy_by_mask") /\ Called("simd_copy_if")) =>
        LET m == res["simd_calc_mask_1"]
            b == res["simd_copy_by_mask"]
            c == res["simd_copy_if"]
        IN /\ \A i \in 0 .. n_range - 1 : m.mask[i] = ToInt(Call1(pred, range[i + 1]))
           /\ b.out = c.out
           /\ Cardinality({j \in DOMAIN b.out : b.out[j] # Unwritten}) = m.ret
           /\ c.ret = m.ret

\* both compactions ran on a range where the mask has a false entry before a
\* true one, so that an element moved to a lower output position
C4_Witness ==
    /\ Called("simd_copy_by_mask") /\ Called("simd_copy_if")
    /\ \E i \in 0 .. n_range - 2 :
           /\ res["simd_calc_mask_1"].mask[i] = 0
           /\ res["simd_calc_mask_1"].mask[i + 1] = 1
    /\ res["simd_calc_mask_1"].ret >= 2

-----------------------------------------------------------------------------
(* Properties of the binary compaction kernels, checked under SpecUnique. *)

\* p is an equivalence on the elements S
IsEquivalence(p, S) ==
    /\ \A x \in S : Call2(p, x, x)
    /\ \A x, y \in S : Call2(p, x, y) => Call2(p, y, x)
    /\ \A x, y, z \in S : (Call2(p, x, y) /\ Call2(p, y, z)) => Call2(p, x, z)

ElementsOf(r) == {r[i] : i \in 1 .. Len(r)}

\* element 0 followed by every element[i], i >= 1, not equivalent to
\* element[i-1], in input order
RunHeads(r, p) ==
    LET kept == SelectSeq([i \in 1 .. Len(r) |-> i],
                          LAMBDA i : i = 1 \/ ~Call2(p, r[i], r[i - 1]))
    IN [k \in 1 .. Len(kept) |-> r[kept[k]]]

\* C5: the output of simd_unique_copy is element 0 followed by every
\* element[i] not equivalent to element[i-1], in input order, empty for n = 0,
\* and [1,2,3,4] for [1,2,2,3,3,3,4] with equality; for an equivalence
\* predicate, simd_unique_copy applied to that output returns an output of the
\* same length and elements.
C5_UniqueCopyIdempotent ==
    /\ Called("simd_unique_copy") =>
          LET u == res["simd_unique_copy"]
          IN /\ Written(u.out, u.ret) = RunHeads(range, pred)
             /\ n_range = 0 => u.ret = 0
             /\ (range = DedupExample /\ pred = Pred("equal_to")) =>
                    (Written(u.out, u.ret) = <<1, 2, 3, 4>> /\ u.ret = 4)
    /\ (Called("simd_unique_copy_again") /\ IsEquivalence(pred, ElementsOf(range))) =>
          LET u == res["simd_unique_copy"]
              v == res["simd_unique_copy_again"]
          IN /\ v.ret = u.ret
             /\ Written(v.out, v.ret) = Written(u.out, u.ret)

\* simd_unique_copy ran twice with an equivalence on a range with a run of
\* duplicates, which the first call shortened
C5_Witness ==
    /\ Called("simd_unique_copy_again")
    /\ IsEquivalence(pred, ElementsOf(range))
    /\ res["simd_unique_copy"].ret >= 3
    /\ res["simd_unique_copy"].ret < n_range

\* C9 as claimed: simd_calc_mask_2 sets mask[i] = NOT pred(element[i],
\* element[i-1]) exactly for the indices 1 <= i < n, reads only elements at
\* indices in [0, n), and returns the number of true mask entries it wrote.
C9_AsClaimed ==
    Called("simd_calc_mask_2") =>
        LET m == res["simd_calc_mask_2"]
        IN /\ \A i \in 1 .. n_range - 1 :
                 m.mask[i] = ToInt(~Call2(pred, range[i + 1], range[i]))
           /\ \A i \in 0 .. n_range - 1 : (m.mask[i] # Unwritten) <=> i >= 1
           /\ m.reads \subseteq 0 .. n_range - 1
           /\ m.ret = Cardinality({i \in 0 .. n_range - 1 : m.mask[i] = 1})

\* C9 amended: simd_calc_mask_2 sets mask[i] = NOT pred(element[i],
\* element[i-1]) for every index 0 <= i < n, where element[-1] is what is
\* stored before the range; for n >= 1 it reads the indices -1 .. n-1 and
\* nothing else; it returns the number of true entries among mask[0 .. n-1].
C9_MaskFromIndexZero ==
    Called("simd_calc_mask_2") =>
        LET m == res["simd_calc_mask_2"]
        IN /\ \A i \in 1 .. n_range - 1 :
                 m.mask[i] = ToInt(~Call2(pred, range[i + 1], range[i]))
           /\ n_range >= 1 => m.mask[0] = ToInt(~Call2(pred, range[1], prev))
           /\ m.reads = (IF n_range >= 1 THEN -1 .. n_range - 1 ELSE {})
           /\ m.ret = Cardinality({i \in 0 .. n_range - 1 : m.mask[i] = 1})

\* simd_calc_mask_2 ran on 3 or more elements; mask[0] came out true from the
\* element before the range and a later entry came out false
C9_Witness ==
    /\ Called("simd_calc_mask_2")
    /\ n_range >= 3
    /\ res["simd_calc_mask_2"].mask[0] = 1
    /\ \E i \in 1 .. n_range - 1 : res["simd_calc_mask_2"].mask[i] = 0

-----------------------------------------------------------------------------
(* Properties of simd_adjacent_find, checked under SpecAdj. *)

\* the indices i with pred(element[i], element[i+1])
AdjacentMatches == {i \in 0 .. n_range - 2 : Call2(pred, range[i + 1], range[i + 2])}

\* the least of them, or last when there is none
FirstAdjacent ==
    IF AdjacentMatches = {} THEN n_range
    ELSE CHOOSE i \in AdjacentMatches : \A j \in AdjacentMatches : i <= j

\* C6 as claimed: simd_adjacent_find with or_semantic = true returns first, the
\* begin position the caller passed, iff with or_semantic = false it returns a
\* position different from last.  Stated for the non-empty ranges, where first
\* and last are different positions (on the empty range the kernel returns
\* last, which is first, and the claim fails there too).
C6_AsClaimed ==
    (Called("simd_adjacent_find_or") /\ Called("simd_adjacent_find") /\ n_range >= 1) =>
        (res["simd_adjacent_find_or"].ret = 0
            <=> res["simd_adjacent_find"].ret # n_range)

\* C6 amended: simd_adjacent_find with or_semantic = true returns a position
\* different from last iff with or_semantic = false it returns a position
\* different from last; that position is the start of the block of 8 in which
\* the first matching pair begins when that block is a full one (the caller's
\* first only for the first block), and the index of the first matching pair
\* itself when the pair begins in the scalar remainder.
C6_OrSemanticSameExistence ==
    (Called("simd_adjacent_find_or") /\ Called("simd_adjacent_find")) =>
        LET o == res["simd_adjacent_find_or"].ret
            f == res["simd_adjacent_find"].ret
        IN /\ o # n_range <=> f # n_range
           /\ f # n_range =>
                 o = (IF block_size * ((f \div block_size) + 1) <= n_range
                      THEN block_size * (f \div block_size)
                      ELSE f)

\* both calls found a pair that begins in the second full block: with
\* or_semantic the kernel returned that block's start, which is not first
C6_Witness ==
    /\ Called("simd_adjacent_find_or") /\ Called("simd_adjacent_find")
    /\ res["simd_adjacent_find_or"].ret = block_size
    /\ res["simd_adjacent_find"].ret > block_size
    /\ res["simd_adjacent_find"].ret < n_range

\* C8: simd_adjacent_find with or_semantic = false returns the smallest index
\* i with pred(element[i], element[i+1]), or last if there is none, and last
\* when n < 2; a pair at indices 8k+7 and 8k+8 is reported at 8k+7; no element
\* at or beyond last (nor before first) is read.
C8_AdjacentFindFirst ==
    Called("simd_adjacent_find") =>
        LET a == res["simd_adjacent_find"]
        IN /\ a.ret = FirstAdjacent
           /\ n_range < 2 => (a.ret = n_range /\ a.reads = {})
           /\ a.reads \subseteq 0 .. n_range - 1

\* the first matching pair is the one at indices 15 and 16, across the end of
\* the second block, and simd_adjacent_find returned 15
C8_Witness ==
    /\ Called("simd_adjacent_find")
    /\ res["simd_adjacent_find"].ret = 2 * block_size - 1
    /\ FirstAdjacent = 2 * block_size - 1
    /\ n_range > 2 * block_size

-----------------------------------------------------------------------------
(* Properties of simd_search, checked under SpecSearch. *)

\* the start positions at which every needle element is equivalent to the
\* haystack element it lies on
Occurrences ==
    {k \in 0 .. Len(range) - Len(needle) :
        \A j \in 1 .. Len(needle) : Call2(pred, needle[j], range[k + j])}

\* C7: simd_search with first_occurrence = true returns the smallest start
\* position at which the needle matches, or last if there is none; index 2 for
\* haystack [1,2,3,4,5] and needle [3,4]; last when the needle is empty or
\* longer than the haystack.
C7_SearchFirstOccurrence ==
    Called("simd_search_first") =>
        LET f == res["simd_search_first"]
        IN /\ (Len(needle) = 0 \/ Len(needle) > Len(range)) => f = Len(range)
           /\ (Len(needle) >= 1 /\ Occurrences = {}) => f = Len(range)
           /\ (Len(needle) >= 1 /\ Occurrences # {}) =>
                 (f \in Occurrences /\ \A k \in Occurrences : f <= k)
           /\ (range = SearchHaystack /\ needle = SearchNeedle) => f = 2

\* a needle of 9 elements (one block of 8 and a remainder) occurs at two
\* positions of the haystack and the search returned the smaller, not 0
C7_Witness ==
    /\ Called("simd_search_first")
    /\ Len(needle) > block_size
    /\ Cardinality(Occurrences) >= 2
    /\ res["simd_search_first"] \in Occurrences
    /\ res["simd_search_first"] > 0

\* C10: for a non-empty needle no longer than the haystack, simd_search with
\* first_occurrence = false returns the greatest start position at which the
\* needle matches, or last if there is none.
C10_SearchLastOccurrence ==
    (Called("simd_search") /\ Len(needle) >= 1 /\ Len(needle) <= Len(range)) =>
        LET f == res["simd_search"]
        IN /\ Occurrences = {} => f = Len(range)
           /\ Occurrences # {} =>
                 (f \in Occurrences /\ \A k \in Occurrences : k <= f)

\* the needle occurs at 3 or more positions and the search returned the
\* greatest, which is not the last window of the haystack
C10_Witness ==
    /\ Called("simd_search")
    /\ Len(needle) >= 2
    /\ Cardinality(Occurrences) >= 3
    /\ res["simd_search"] \in Occurrences
    /\ res["simd_search"] < Len(range) - Len(needle)

=============================================================================
